---- MODULE Spec2Model ----
(***************************************************************************)
(* Model of the analytics core of the CyberAware Activity Provider         *)
(* (src/app.py): the AnalyticsRepository store, the two update strategies  *)
(* and the CyberAwareFacade that dispatches between them.                  *)
(*                                                                         *)
(* Python strings whose characters the code inspects (the mode and the     *)
(* "progresso" argument) are sequences of one-character strings, so that   *)
(* str.strip, str.lower and int() are computed and not assumed.  Activity  *)
(* and student IDs are opaque to the code (only emptiness is tested) and   *)
(* are TLA+ strings.  A dict is a sequence of entries in insertion order.  *)
(***************************************************************************)
EXTENDS Integers, Sequences, FiniteSets, TLC

----------------------------------------------------------------------------
(* Bounds of the model *)

NumActivities == 1
NumStudents == 2
MaxSteps == 2
NumWorkers == 2
MaxRequests == 2

ActivityNames == <<"A1", "A2", "A3", "A4">>
StudentNames == <<"S1", "S2", "S3", "S4">>

\* "" is what request.args.get("activityID", "") yields for ?activityID=
ActivityIDs == {""} \cup {ActivityNames[i] : i \in 1..NumActivities}
StudentIDs == {StudentNames[i] : i \in 1..NumStudents}

\* Python None; a sequence so that it compares with character sequences
None == <<"<None>">>

SIMPLE == <<"s", "i", "m", "p", "l", "e">>
PROGRESS == <<"p", "r", "o", "g", "r", "e", "s", "s">>

\* mode arguments (always a str at the endpoint): "", "foo", " SIMPLE ",
\* "Progress"
Modes ==
    { << >>,
      <<"f", "o", "o">>,
      <<" ", "S", "I", "M", "P", "L", "E", " ">>,
      <<"P", "r", "o", "g", "r", "e", "s", "s">> }

\* args.get("progresso"): None (key absent), "", "abc", "-5", "30", "130"
ProgressInputs ==
    { None,
      << >>,
      <<"a", "b", "c">>,
      <<"-", "5">>,
      <<"3", "0">>,
      <<"1", "3", "0">> }

----------------------------------------------------------------------------
(* Python string primitives used by the code *)

Whitespace == {" ", "\t", "\n"}

UpperChars == <<"A", "B", "C", "D", "E", "F", "G", "H", "I", "J", "K", "L", "M",
                "N", "O", "P", "Q", "R", "S", "T", "U", "V", "W", "X", "Y", "Z">>
LowerChars == <<"a", "b", "c", "d", "e", "f", "g", "h", "i", "j", "k", "l", "m",
                "n", "o", "p", "q", "r", "s", "t", "u", "v", "w", "x", "y", "z">>
DigitChars == <<"0", "1", "2", "3", "4", "5", "6", "7", "8", "9">>

\* the lower-case form of each upper-case letter
LowerOf ==
    [c \in {UpperChars[i] : i \in 1..Len(UpperChars)} |->
        LowerChars[CHOOSE i \in 1..Len(UpperChars) : UpperChars[i] = c]]

LowerChar(c) == IF c \in DOMAIN LowerOf THEN LowerOf[c] ELSE c

\* str.lower()
Lower(s) == [i \in 1..Len(s) |-> LowerChar(s[i])]

RECURSIVE LStrip(_)
LStrip(s) ==
    IF s # << >> /\ Head(s) \in Whitespace THEN LStrip(Tail(s)) ELSE s

RECURSIVE RStrip(_)
RStrip(s) ==
    IF s # << >> /\ s[Len(s)] \in Whitespace
    THEN RStrip(SubSeq(s, 1, Len(s) - 1))
    ELSE s

\* str.strip()
Strip(s) == RStrip(LStrip(s))

\* the value of each decimal digit
DigitOf ==
    [c \in {DigitChars[i] : i \in 1..Len(DigitChars)} |->
        (CHOOSE i \in 1..Len(DigitChars) : DigitChars[i] = c) - 1]

IsDigit(c) == c \in DOMAIN DigitOf
DigitVal(c) == DigitOf[c]

RECURSIVE DigitsVal(_)
DigitsVal(s) ==
    IF s = << >> THEN 0
    ELSE 10 * DigitsVal(SubSeq(s, 1, Len(s) - 1)) + DigitVal(s[Len(s)])

AllDigits(s) == s # << >> /\ \A i \in 1..Len(s) : IsDigit(s[i])

\* int(x) for a str x: surrounding whitespace, optional sign, decimal digits;
\* ok = FALSE stands for ValueError.  (The inputs hold no "_".)
ParseInt(raw) ==
    LET t == Strip(raw)
        signed == t # << >> /\ Head(t) \in {"+", "-"}
        body == IF signed THEN Tail(t) ELSE t
    IN  IF AllDigits(body)
        THEN [ok |-> TRUE,
              val |-> IF signed /\ Head(t) = "-" THEN 0 - DigitsVal(body)
                      ELSE DigitsVal(body)]
        ELSE [ok |-> FALSE, val |-> 0]

----------------------------------------------------------------------------
(* AnalyticsRepository *)

ACCESSED == "Acedeu à atividade"
PROGRESSO == "Progresso (%)"

\* index of the entry of student sid in an activity's dict, 0 if absent
IndexOf(students, sid) ==
    IF \E i \in 1..Len(students) : students[i].inveniraStdID = sid
    THEN CHOOSE i \in 1..Len(students) : students[i].inveniraStdID = sid
    ELSE 0

\* dict.get(sid, default)
DictGet(students, sid, default) ==
    IF IndexOf(students, sid) = 0 THEN default ELSE students[IndexOf(students, sid)]

DictSet_MoveToEnd(students, sid, rec) ==
    Append(SelectSeq(students, LAMBDA e : e.inveniraStdID # sid), rec)

DictSet_Replace(students, sid, rec) == <<rec>>

\* dict[sid] = rec: in place for a present key, at the end for a new one
DictSet(students, sid, rec) ==
    IF IndexOf(students, sid) = 0
    THEN Append(students, rec)
    ELSE [students EXCEPT ![IndexOf(students, sid)] = rec]

\* [qa for qa in quant if qa["name"] != name]
RECURSIVE WithoutName(_, _)
WithoutName(quant, name) ==
    IF quant = << >> THEN << >>
    ELSE IF Head(quant).name = name THEN WithoutName(Tail(quant), name)
    ELSE <<Head(quant)>> \o WithoutName(Tail(quant), name)

Upsert_InPlace(quant, name, value) ==
    IF \E i \in 1..Len(quant) : quant[i].name = name
    THEN [i \in 1..Len(quant) |->
            IF quant[i].name = name THEN [name |-> name, value |-> value] ELSE quant[i]]
    ELSE Append(quant, [name |-> name, value |-> value])

Upsert_NoFilter(quant, name, value) ==
    Append(quant, [name |-> name, value |-> value])

\* the filter-then-append of a named metric
Upsert(quant, name, value) ==
    Append(WithoutName(quant, name), [name |-> name, value |-> value])

RegisterActivity_NoCheck(d, activity_id) ==
    IF activity_id # ""
    THEN [a \in DOMAIN d \cup {activity_id} |->
             IF a = activity_id THEN << >> ELSE d[a]]
    ELSE d

\* register_activity: d is self._data, the result is self._data afterwards
RegisterActivity(d, activity_id) ==
    IF activity_id # "" /\ activity_id \notin DOMAIN d
    THEN [a \in DOMAIN d \cup {activity_id} |->
             IF a = activity_id THEN << >> ELSE d[a]]
    ELSE d

FreshRecord(sid) ==
    [inveniraStdID |-> sid, quantAnalytics |-> << >>, qualAnalytics |-> << >>]

RegisterStudentEvent_Fresh(d, activity_id, sid, event_data) ==
    LET d1 == RegisterActivity(d, activity_id)
    IN  IF activity_id \notin DOMAIN d1
        THEN [raised |-> TRUE, data |-> d1]
        ELSE
          LET student == FreshRecord(sid)
              q1 == Upsert(student.quantAnalytics, ACCESSED, TRUE)
              q2 == IF "progresso" \in DOMAIN event_data
                    THEN Upsert(q1, PROGRESSO, event_data.progresso)
                    ELSE q1
              updated == [student EXCEPT !.quantAnalytics = q2]
          IN  [raised |-> FALSE,
               data |-> [d1 EXCEPT ![activity_id] = DictSet(@, sid, updated)]]

RegisterStudentEvent_NoStore(d, activity_id, sid, event_data) ==
    LET d1 == RegisterActivity(d, activity_id)
    IN  IF activity_id \notin DOMAIN d1
        THEN [raised |-> TRUE, data |-> d1]
        ELSE
          LET student == DictGet(d1[activity_id], sid, FreshRecord(sid))
              q1 == Upsert(student.quantAnalytics, ACCESSED, TRUE)
              q2 == IF "progresso" \in DOMAIN event_data
                    THEN Upsert(q1, PROGRESSO, event_data.progresso)
                    ELSE q1
              updated == [student EXCEPT !.quantAnalytics = q2]
          IN  [raised |-> FALSE,
               data |-> IF IndexOf(d1[activity_id], sid) = 0 THEN d1
                        ELSE [d1 EXCEPT ![activity_id] = DictSet(@, sid, updated)]]

RegisterStudentEvent_AllActivities(d, activity_id, sid, event_data) ==
    LET d1 == RegisterActivity(d, activity_id)
    IN  IF activity_id \notin DOMAIN d1
        THEN [raised |-> TRUE, data |-> d1]
        ELSE
          LET student == DictGet(d1[activity_id], sid, FreshRecord(sid))
              q1 == Upsert(student.quantAnalytics, ACCESSED, TRUE)
              q2 == IF "progresso" \in DOMAIN event_data
                    THEN Upsert(q1, PROGRESSO, event_data.progresso)
                    ELSE q1
              updated == [student EXCEPT !.quantAnalytics = q2]
          IN  [raised |-> FALSE,
               data |-> [b \in DOMAIN d1 |-> DictSet(d1[b], sid, updated)]]

\* register_student_event.  event_data is a dict: a function whose DOMAIN is
\* its keys.  raised = TRUE is the KeyError of self._data[activity_id].
RegisterStudentEvent(d, activity_id, sid, event_data) ==
    LET d1 == RegisterActivity(d, activity_id)
    IN  IF activity_id \notin DOMAIN d1
        THEN [raised |-> TRUE, data |-> d1]
        ELSE
          LET student == DictGet(d1[activity_id], sid, FreshRecord(sid))
              q1 == Upsert(student.quantAnalytics, ACCESSED, TRUE)
              q2 == IF "progresso" \in DOMAIN event_data
                    THEN Upsert(q1, PROGRESSO, event_data.progresso)
                    ELSE q1
              updated == [student EXCEPT !.quantAnalytics = q2]
          IN  [raised |-> FALSE,
               data |-> [d1 EXCEPT ![activity_id] = DictSet(@, sid, updated)]]

\* get_activity_analytics
GetActivityAnalytics(d, activity_id) ==
    IF activity_id \notin DOMAIN d THEN << >> ELSE d[activity_id]

GetActivityAnalyticsStore_SetDefault(d, activity_id) == RegisterActivity(d, activity_id)

\* self._data after get_activity_analytics: the method assigns nothing
GetActivityAnalyticsStore(d, activity_id) == d

----------------------------------------------------------------------------
(* Strategies *)

\* SimpleAccessStrategy.update
SimpleUpdate(d, activity_id, user_id, progresso_raw) ==
    RegisterStudentEvent(d, activity_id, user_id, [accessed |-> TRUE])

Clamp_NoUpper(progresso) ==
    IF progresso < 0 THEN 0 ELSE progresso

\* the normalisation of the parsed progress to 0..100
Clamp(progresso) ==
    LET lo == IF progresso < 0 THEN 0 ELSE progresso
    IN  IF lo > 100 THEN 100 ELSE lo

\* ProgressAccessStrategy.update
ProgressUpdate(d, activity_id, user_id, progresso_raw) ==
    IF progresso_raw = None \/ progresso_raw = << >>
    THEN RegisterStudentEvent(d, activity_id, user_id, [accessed |-> TRUE])
    ELSE
      LET parsed == ParseInt(progresso_raw)
      IN  IF ~parsed.ok
          THEN RegisterStudentEvent(d, activity_id, user_id, [accessed |-> TRUE])
          ELSE RegisterStudentEvent(d, activity_id, user_id,
                  [accessed |-> TRUE, progresso |-> Clamp(parsed.val)])

----------------------------------------------------------------------------
(* CyberAwareFacade *)

BASE_URL == "https://cyberaware-ap.onrender.com"

ModeNorm_NoStrip(mode) == Lower(IF mode = None \/ mode = << >> THEN << >> ELSE mode)

\* (mode or "").strip().lower()
ModeNorm(mode) == Lower(Strip(IF mode = None \/ mode = << >> THEN << >> ELSE mode))

SelectStrategy_InferFirst(mode, progresso_raw) ==
    LET mode_norm == ModeNorm(mode)
    IN  IF progresso_raw \notin {None, << >>} THEN PROGRESS
        ELSE IF mode_norm \in {SIMPLE, PROGRESS} THEN mode_norm
        ELSE SIMPLE

\* _select_strategy: the key of the strategy in self._strategies
SelectStrategy(mode, progresso_raw) ==
    LET mode_norm == ModeNorm(mode)
    IN  IF mode_norm \in {SIMPLE, PROGRESS} THEN mode_norm
        ELSE IF progresso_raw \notin {None, << >>} THEN PROGRESS
        ELSE SIMPLE

\* strategy.update(self.repo, activity_id, user_id, args)
StrategyUpdate(strategy, d, activity_id, user_id, progresso_raw) ==
    IF strategy = PROGRESS
    THEN ProgressUpdate(d, activity_id, user_id, progresso_raw)
    ELSE SimpleUpdate(d, activity_id, user_id, progresso_raw)

MessageMode_Raw(mode, progresso_raw) == ModeNorm(mode)

\* the mode printed in the confirmation message of record_student_access
MessageMode(mode, progresso_raw) ==
    LET mode_norm == ModeNorm(mode)
    IN  IF mode_norm \in {SIMPLE, PROGRESS} THEN mode_norm
        ELSE IF progresso_raw \notin {None, << >>} THEN PROGRESS ELSE SIMPLE

----------------------------------------------------------------------------
(* State *)

VARIABLES
    data,       \* AnalyticsRepository._data: activity ID -> dict of students
    lastOp,     \* the last call made on the core, its arguments and outcome
    recorded,   \* history: the (activity, student) pairs of the events that
                \* record_student_access completed
    steps,      \* number of calls made so far
    heap,       \* the student record objects, by identity (index)
    refs,       \* self._data by reference: activity ID -> dict of
                \* student ID -> index of the record object in heap
    threads,    \* per thread: the request in progress, its position in the
                \* code and its local variables
    singleton,  \* AnalyticsRepository._instance, the number of instances
                \* constructed and the instance held by FACADE.repo
    hist        \* history: the requests in order of their start, and whether
                \* one started while another was in progress

vars == <<data, lastOp, recorded, steps, heap, refs, threads, singleton, hist>>

concVars == <<heap, refs, threads, singleton, hist>>

WorkerNames == <<"w1", "w2", "w3", "w4">>
Workers == {WorkerNames[i] : i \in 1..NumWorkers}
Threads == {"main"} \cup Workers

\* a thread that is not inside a request
Idle ==
    [pc |-> "idle", op |-> "none", activity |-> "", user |-> "",
     event |-> [accessed |-> TRUE], need |-> FALSE, student |-> 0,
     quant_list |-> << >>, got |-> 0, raised |-> FALSE]

NoCall ==
    [op |-> "init", activity |-> "", user |-> "", mode |-> None,
     progresso |-> None, strategy |-> None, raised |-> FALSE, result |-> << >>]

\* the module is loaded (FACADE is constructed) and no request was made
Init ==
    /\ data = << >>
    /\ lastOp = NoCall
    /\ recorded = {}
    /\ steps = 0
    /\ heap = << >>
    /\ refs = << >>
    /\ threads = [t \in Threads |-> Idle]
    /\ singleton = [instance |-> 1, count |-> 1, facade |-> 1]
    /\ hist = [log |-> << >>, overlap |-> FALSE]

\* AnalyticsRepository.register_activity called on the shared store
RegisterActivityCall(a) ==
    /\ steps < MaxSteps
    /\ data' = RegisterActivity(data, a)
    /\ lastOp' = [NoCall EXCEPT !.op = "register_activity", !.activity = a]
    /\ steps' = steps + 1
    /\ UNCHANGED <<recorded, concVars>>

\* the body of CyberAwareFacade.prepare_deploy
PrepareDeployCall(a) ==
    /\ data' = RegisterActivity(data, a)
    /\ lastOp' = [NoCall EXCEPT !.op = "prepare_deploy", !.activity = a,
                                !.result = <<BASE_URL, "/play?activityID=", a>>]
    /\ steps' = steps + 1
    /\ UNCHANGED <<recorded, concVars>>

\* CyberAwareFacade.prepare_deploy
PrepareDeploy(a) == steps < MaxSteps /\ PrepareDeployCall(a)

\* the body of CyberAwareFacade.record_student_access
RecordStudentAccessCall(a, s, mode, progresso_raw) ==
    LET strategy == SelectStrategy(mode, progresso_raw)
        out == StrategyUpdate(strategy, data, a, s, progresso_raw)
    IN  /\ data' = out.data
        /\ lastOp' = [op |-> "record_student_access", activity |-> a, user |-> s,
                      mode |-> mode, progresso |-> progresso_raw,
                      strategy |-> strategy, raised |-> out.raised,
                      result |-> IF out.raised THEN << >>
                                 ELSE <<s, a, MessageMode(mode, progresso_raw)>>]
        /\ recorded' = IF out.raised THEN recorded ELSE recorded \cup {<<a, s>>}
        /\ steps' = steps + 1
        /\ UNCHANGED concVars

\* CyberAwareFacade.record_student_access
RecordStudentAccess(a, s, mode, progresso_raw) ==
    steps < MaxSteps /\ RecordStudentAccessCall(a, s, mode, progresso_raw)

\* the body of CyberAwareFacade.get_analytics
GetAnalyticsCall(a) ==
    /\ lastOp' = [NoCall EXCEPT !.op = "get_analytics", !.activity = a,
                                !.result = GetActivityAnalytics(data, a)]
    /\ data' = GetActivityAnalyticsStore(data, a)
    /\ steps' = steps + 1
    /\ UNCHANGED <<recorded, concVars>>

\* CyberAwareFacade.get_analytics
GetAnalytics(a) == steps < MaxSteps /\ GetAnalyticsCall(a)

Next ==
    \/ \E a \in ActivityIDs : RegisterActivityCall(a)
    \/ \E a \in ActivityIDs : PrepareDeploy(a)
    \/ \E a \in ActivityIDs, s \in StudentIDs, mode \in Modes,
          progresso_raw \in ProgressInputs :
            RecordStudentAccess(a, s, mode, progresso_raw)
    \/ \E a \in ActivityIDs : GetAnalytics(a)

Spec == Init /\ [][Next]_vars

----------------------------------------------------------------------------
(* The same calls over two activities, with the mode left to inference *)

MaxTopoSteps == 3

TopoActivities == {"A1", "A2"}

\* mode "foo": progress behaviour exactly when a progress value is present
TopoModes == {<<"f", "o", "o">>}

\* args.get("progresso"): None (key absent), "30", "130"
TopoProgress == {None, <<"3", "0">>, <<"1", "3", "0">>}

TopoDeploy(a) == steps < MaxTopoSteps /\ PrepareDeployCall(a)

TopoRecord(a, s, mode, progresso_raw) ==
    steps < MaxTopoSteps /\ RecordStudentAccessCall(a, s, mode, progresso_raw)

TopoGet(a) == steps < MaxTopoSteps /\ GetAnalyticsCall(a)

NextTopo ==
    \/ \E a \in TopoActivities : TopoDeploy(a)
    \/ \E a \in TopoActivities, s \in StudentIDs, mode \in TopoModes,
          progresso_raw \in TopoProgress :
            TopoRecord(a, s, mode, progresso_raw)
    \/ \E a \in TopoActivities : TopoGet(a)

SpecTopo == Init /\ [][NextTopo]_vars

----------------------------------------------------------------------------
(* Concurrent workers: each request runs the statements of its method one   *)
(* at a time, and the statements of different threads interleave.  Student  *)
(* records are objects: dict.get returns the stored object itself, so an    *)
(* assignment to its "quantAnalytics" is seen through every reference.      *)

ConcActivities == {"A1"}
ConcStudents == {"S1", "S2"}

\* the event_data dicts the strategies pass to register_student_event
ConcEvents == {[accessed |-> TRUE], [accessed |-> TRUE, progresso |-> 30]}

\* self._data by value: what the store holds, with every reference followed
View(rf, hp) ==
    [a \in DOMAIN rf |-> [i \in 1..Len(rf[a]) |-> hp[rf[a][i].ref]]]

InstanceIsNone_Always(instance) == TRUE

\* cls._instance is None
InstanceIsNone(instance) == instance = 0

\* activity_id and activity_id not in self._data
NeedsRegistration(rf, activity_id) ==
    activity_id # "" /\ activity_id \notin DOMAIN rf

\* self._data[activity_id] = {}
CreateActivity(rf, activity_id) ==
    [a \in DOMAIN rf \cup {activity_id} |->
        IF a = activity_id THEN << >> ELSE rf[a]]

StoreStudent_Skip(rf, activity_id, sid, oid) == rf

\* self._data[activity_id][invenira_std_id] = student_analytics
StoreStudent(rf, activity_id, sid, oid) ==
    [rf EXCEPT ![activity_id] = DictSet(@, sid, [inveniraStdID |-> sid, ref |-> oid])]

\* the state before the module is loaded
InitConc ==
    /\ data = << >>
    /\ lastOp = NoCall
    /\ recorded = {}
    /\ steps = 0
    /\ heap = << >>
    /\ refs = << >>
    /\ threads = [t \in Threads |-> Idle]
    /\ singleton = [instance |-> 0, count |-> 0, facade |-> 0]
    /\ hist = [log |-> << >>, overlap |-> FALSE]

ConcFrame == UNCHANGED <<lastOp, recorded, steps>>

\* after the statement of thread t: its locals are loc, the store is rf, hp
Advance(t, loc, rf, hp) ==
    /\ threads' = [threads EXCEPT ![t] = loc]
    /\ refs' = rf
    /\ heap' = hp
    /\ data' = View(rf, hp)
    /\ ConcFrame

\* the import of the module: FACADE = CyberAwareFacade(...) calls get_instance
LoadModule ==
    /\ singleton.facade = 0
    /\ threads["main"].pc = "idle"
    /\ Advance("main", [Idle EXCEPT !.pc = "gi_check", !.op = "load"], refs, heap)
    /\ UNCHANGED <<singleton, hist>>

\* the request returns (or raises): the locals of the call are gone
Return(loc, got, raised) == [Idle EXCEPT !.got = got, !.raised = raised]

\* a request goes to the first idle worker; workers serve only once the
\* module is loaded
Begin(t, op, a, s, event) ==
    /\ t \in Workers
    /\ singleton.facade # 0
    /\ threads[t].pc = "idle"
    /\ \A i, j \in 1..NumWorkers :
          (WorkerNames[i] = t /\ j < i) => threads[WorkerNames[j]].pc # "idle"
    /\ Len(hist.log) < MaxRequests
    /\ Advance(t, [Idle EXCEPT !.pc = IF op = "get_instance" THEN "gi_check"
                                       ELSE "reg_check",
                               !.op = op, !.activity = a, !.user = s,
                               !.event = event],
               refs, heap)
    /\ hist' = [log |-> Append(hist.log, [op |-> op, activity |-> a, user |-> s,
                                          event |-> event]),
                overlap |-> hist.overlap
                            \/ \E u \in Workers : threads[u].pc # "idle"]
    /\ UNCHANGED singleton

BeginEvent(t, a, s, event) == Begin(t, "event", a, s, event)
BeginRegister(t, a) == Begin(t, "register", a, "", [accessed |-> TRUE])
BeginGetInstance(t) == Begin(t, "get_instance", "", "", [accessed |-> TRUE])

\* the thread after register_activity returns
AfterRegister(loc) ==
    IF loc.op = "event" THEN [loc EXCEPT !.pc = "fetch"] ELSE Return(loc, 0, FALSE)

\* register_activity, the test
RegCheck(t) ==
    /\ threads[t].pc = "reg_check"
    /\ LET need == NeedsRegistration(refs, threads[t].activity)
       IN  Advance(t, IF need THEN [threads[t] EXCEPT !.need = TRUE, !.pc = "reg_create"]
                      ELSE AfterRegister(threads[t]),
                   refs, heap)
    /\ UNCHANGED <<singleton, hist>>

\* register_activity, the assignment
RegCreate(t) ==
    /\ threads[t].pc = "reg_create"
    /\ Advance(t, AfterRegister([threads[t] EXCEPT !.need = FALSE]),
               CreateActivity(refs, threads[t].activity), heap)
    /\ UNCHANGED <<singleton, hist>>

\* student_analytics = self._data[activity_id].get(invenira_std_id, {...})
Fetch(t) ==
    /\ threads[t].pc = "fetch"
    /\ LET a == threads[t].activity
           s == threads[t].user
       IN  IF a \notin DOMAIN refs
           THEN Advance(t, Return(threads[t], 0, TRUE), refs, heap)
           ELSE IF IndexOf(refs[a], s) = 0
           THEN Advance(t, [threads[t] EXCEPT !.pc = "build_acc",
                                              !.student = Len(heap) + 1],
                        refs, Append(heap, FreshRecord(s)))
           ELSE Advance(t, [threads[t] EXCEPT !.pc = "build_acc",
                                              !.student = refs[a][IndexOf(refs[a], s)].ref],
                        refs, heap)
    /\ UNCHANGED <<singleton, hist>>

\* quant_list = [...]; quant_list.append(...) for one of the two metrics
Build(t, pc, next, name, value) ==
    /\ threads[t].pc = pc
    /\ Advance(t, [threads[t] EXCEPT !.pc = next,
                      !.quant_list = Upsert(heap[threads[t].student].quantAnalytics,
                                            name, value)],
               refs, heap)
    /\ UNCHANGED <<singleton, hist>>

\* student_analytics["quantAnalytics"] = quant_list
Assign(t, pc, next) ==
    /\ threads[t].pc = pc
    /\ Advance(t, [threads[t] EXCEPT !.pc = next], refs,
               [heap EXCEPT ![threads[t].student].quantAnalytics = threads[t].quant_list])
    /\ UNCHANGED <<singleton, hist>>

BuildAcc(t) == Build(t, "build_acc", "assign_acc", ACCESSED, TRUE)

AssignAcc(t) ==
    Assign(t, "assign_acc",
           IF "progresso" \in DOMAIN threads[t].event THEN "build_prog" ELSE "store")

BuildProg(t) ==
    /\ "progresso" \in DOMAIN threads[t].event
    /\ Build(t, "build_prog", "assign_prog", PROGRESSO, threads[t].event.progresso)

AssignProg(t) == Assign(t, "assign_prog", "store")

\* self._data[activity_id][invenira_std_id] = student_analytics
Store(t) ==
    /\ threads[t].pc = "store"
    /\ IF threads[t].activity \notin DOMAIN refs
       THEN Advance(t, Return(threads[t], 0, TRUE), refs, heap)
       ELSE Advance(t, Return(threads[t], 0, FALSE),
                    StoreStudent(refs, threads[t].activity, threads[t].user,
                                 threads[t].student),
                    heap)
    /\ UNCHANGED <<singleton, hist>>

\* get_instance, the test
GiCheck(t) ==
    /\ threads[t].pc = "gi_check"
    /\ LET need == InstanceIsNone(singleton.instance)
       IN  Advance(t, [threads[t] EXCEPT !.pc = IF need THEN "gi_create" ELSE "gi_return"],
                   refs, heap)
    /\ UNCHANGED <<singleton, hist>>

\* cls._instance = cls()
GiCreate(t) ==
    /\ threads[t].pc = "gi_create"
    /\ singleton' = [singleton EXCEPT !.count = @ + 1, !.instance = singleton.count + 1]
    /\ Advance(t, [threads[t] EXCEPT !.pc = "gi_return"], refs, heap)
    /\ UNCHANGED hist

\* return cls._instance; in the facade's __init__: self.repo = the result
GiReturn(t) ==
    /\ threads[t].pc = "gi_return"
    /\ singleton' = IF threads[t].op = "load"
                    THEN [singleton EXCEPT !.facade = singleton.instance]
                    ELSE singleton
    /\ Advance(t, Return(threads[t], singleton.instance, FALSE), refs, heap)
    /\ UNCHANGED hist

NextConc ==
    \/ LoadModule
    \/ \E t \in Workers, a \in ConcActivities, s \in ConcStudents, e \in ConcEvents :
          BeginEvent(t, a, s, e)
    \/ \E t \in Workers, a \in ConcActivities : BeginRegister(t, a)
    \/ \E t \in Workers : BeginGetInstance(t)
    \/ \E t \in Threads : RegCheck(t)
    \/ \E t \in Threads : RegCreate(t)
    \/ \E t \in Threads : Fetch(t)
    \/ \E t \in Threads : BuildAcc(t)
    \/ \E t \in Threads : AssignAcc(t)
    \/ \E t \in Threads : BuildProg(t)
    \/ \E t \in Threads : AssignProg(t)
    \/ \E t \in Threads : Store(t)
    \/ \E t \in Threads : GiCheck(t)
    \/ \E t \in Threads : GiCreate(t)
    \/ \E t \in Threads : GiReturn(t)

SpecConc == InitConc /\ [][NextConc]_vars

----------------------------------------------------------------------------
(* Vocabulary of the properties *)

IsRecord == lastOp.op = "record_student_access"
Completed == IsRecord /\ ~lastOp.raised

\* the quantAnalytics list stored for (a, s); empty when there is no record
QuantOf(d, a, s) ==
    IF a \in DOMAIN d /\ \E i \in 1..Len(d[a]) : d[a][i].inveniraStdID = s
    THEN (d[a][CHOOSE i \in 1..Len(d[a]) : d[a][i].inveniraStdID = s]).quantAnalytics
    ELSE << >>

\* the values, in order, of the entries of a list that carry a name
RECURSIVE ValuesOf(_, _)
ValuesOf(quant, name) ==
    IF quant = << >> THEN << >>
    ELSE (IF Head(quant).name = name THEN <<Head(quant).value>> ELSE << >>)
         \o ValuesOf(Tail(quant), name)

AccessedOf(d, a, s) == ValuesOf(QuantOf(d, a, s), ACCESSED)
ProgressOf(d, a, s) == ValuesOf(QuantOf(d, a, s), PROGRESSO)

HasRecord(d, a, s) ==
    a \in DOMAIN d /\ \E i \in 1..Len(d[a]) : d[a][i].inveniraStdID = s

\* the inputs of ProgressInputs that are integer literals, with their values
In30 == <<"3", "0">>
In130 == <<"1", "3", "0">>
InMinus5 == <<"-", "5">>
IntegerInputs == {InMinus5, In30, In130}
IntegerValue(raw) ==
    IF raw = InMinus5 THEN 0 - 5 ELSE IF raw = In30 THEN 30 ELSE 130

\* mode, without surrounding whitespace and ignoring case, is the word
IsWord(mode, word) ==
    /\ mode # None
    /\ \E i \in 1..(Len(mode) + 1) :
         /\ i + Len(word) - 1 <= Len(mode)
         /\ \A k \in 1..Len(mode) :
              IF k < i \/ k > i + Len(word) - 1
              THEN mode[k] \in Whitespace
              ELSE \/ mode[k] = word[k - i + 1]
                   \/ \E u \in 1..Len(UpperChars) :
                        mode[k] = UpperChars[u] /\ LowerChars[u] = word[k - i + 1]

\* the behaviour the dispatch rule names for a mode and a progress input
RuleOf(mode, progresso_raw) ==
    IF IsWord(mode, SIMPLE) THEN SIMPLE
    ELSE IF IsWord(mode, PROGRESS) THEN PROGRESS
    ELSE IF progresso_raw # None /\ progresso_raw # << >> THEN PROGRESS
    ELSE SIMPLE

\* RuleOf, tabulated once for the inputs of the requests
RuleTable == [m \in Modes, p \in ProgressInputs |-> RuleOf(m, p)]

RuleBehaviour(mode, progresso_raw) ==
    IF mode \in Modes /\ progresso_raw \in ProgressInputs
    THEN RuleTable[mode, progresso_raw]
    ELSE RuleOf(mode, progresso_raw)

\* the event of lastOp stored a valid progress value for (a, s)
SuppliesProgress(op, a, s) ==
    /\ op.op = "record_student_access"
    /\ op.activity = a /\ op.user = s
    /\ op.progresso \in IntegerInputs
    /\ RuleBehaviour(op.mode, op.progresso) = PROGRESS

----------------------------------------------------------------------------
(* Properties *)

\* C1 (uniqueness): after any sequence of register_activity,
\* record_student_access and get_analytics calls, every stored student record
\* holds at most one entry named "Acedeu à atividade" and at most one entry
\* named "Progresso (%)".
Uniqueness ==
    \A a \in DOMAIN data : \A i \in 1..Len(data[a]) :
        /\ Len(ValuesOf(data[a][i].quantAnalytics, ACCESSED)) <= 1
        /\ Len(ValuesOf(data[a][i].quantAnalytics, PROGRESSO)) <= 1

\* a pair that had an event storing progress and then an event without one:
\* both names were written again over an existing entry
UniquenessWitness ==
    /\ Completed
    /\ ~SuppliesProgress(lastOp, lastOp.activity, lastOp.user)
    /\ Len(ProgressOf(data, lastOp.activity, lastOp.user)) = 1
    /\ Len(AccessedOf(data, lastOp.activity, lastOp.user)) = 1
    /\ steps = 2

\* C2 (monotonic accessed-flag): once an event has been recorded for a pair
\* with a non-empty activity ID, get_analytics of that activity returns a
\* record for that student whose accessed-flag entry is TRUE, whatever events
\* came later for any student or activity.
HasAccessedTrue(records, s) ==
    \E i \in 1..Len(records) :
        /\ records[i].inveniraStdID = s
        /\ \E j \in 1..Len(records[i].quantAnalytics) :
             /\ records[i].quantAnalytics[j].name = ACCESSED
             /\ records[i].quantAnalytics[j].value = TRUE

MonotonicAccessed ==
    /\ \A p \in recorded :
         p[1] # "" => HasAccessedTrue(GetActivityAnalytics(data, p[1]), p[2])
    /\ lastOp.op = "get_analytics" =>
         \A p \in recorded :
            (p[1] = lastOp.activity /\ p[1] # "") => HasAccessedTrue(lastOp.result, p[2])

\* get_analytics of an activity after an event of one of its students
MonotonicAccessedWitness ==
    /\ lastOp.op = "get_analytics"
    /\ \E p \in recorded : p[1] = lastOp.activity /\ HasAccessedTrue(lastOp.result, p[2])

\* C3 (progress persistence): a stored progress value of a pair is kept by
\* every call other than an event of that pair that supplies a valid progress
\* under progress behaviour: plain-access events, progress events with a
\* missing, empty or unparseable progress, register_activity, prepare_deploy
\* and get_analytics leave it as it is.
ProgressPersistence ==
    [][\A a \in DOMAIN data : \A i \in 1..Len(data[a]) :
          LET s == data[a][i].inveniraStdID
              before == ValuesOf(data[a][i].quantAnalytics, PROGRESSO)
          IN  (before # << >> /\ ~SuppliesProgress(lastOp', a, s))
                 => ProgressOf(data', a, s) = before]_vars

\* a progress-mode event with progress "abc" on a pair that holds progress
ProgressPersistenceWitness ==
    /\ Completed
    /\ lastOp.strategy = PROGRESS
    /\ lastOp.progresso = <<"a", "b", "c">>
    /\ ProgressOf(data, lastOp.activity, lastOp.user) # << >>

\* C4 (clamping): every stored progress value is an integer in 0..100; an
\* event that parses its input under progress behaviour stores 0 for a value
\* below 0, 100 for a value above 100 and the value itself otherwise.
Clamping ==
    /\ \A a \in DOMAIN data : \A i \in 1..Len(data[a]) :
         \A j \in 1..Len(data[a][i].quantAnalytics) :
            data[a][i].quantAnalytics[j].name = PROGRESSO
               => data[a][i].quantAnalytics[j].value \in 0..100
    /\ (Completed /\ SuppliesProgress(lastOp, lastOp.activity, lastOp.user)) =>
         LET v == IntegerValue(lastOp.progresso)
         IN  /\ ProgressOf(data, lastOp.activity, lastOp.user) =
                  <<IF v < 0 THEN 0 ELSE IF v > 100 THEN 100 ELSE v>>
             /\ AccessedOf(data, lastOp.activity, lastOp.user) = <<TRUE>>

\* the second call is an event with progress "130" on the only pair recorded:
\* it ends with accessed-flag TRUE and progress 100
ClampingWitness ==
    /\ Completed
    /\ lastOp.progresso = In130
    /\ steps = 2
    /\ recorded = {<<lastOp.activity, lastOp.user>>}
    /\ QuantOf(data, lastOp.activity, lastOp.user) =
         <<[name |-> ACCESSED, value |-> TRUE], [name |-> PROGRESSO, value |-> 100]>>

\* C5 (totality): no operation of the core raises, for any input, a missing
\* or empty activity ID included.
NoOperationRaises == ~lastOp.raised
\* C6 (dispatch precedence): an event whose mode, trimmed and lower-cased, is
\* "simple" never writes or changes a progress entry, even with a parseable
\* progress in its input; in the record of its pair it writes the accessed-flag
\* and nothing else.
EntriesOtherThan(quant, name) == SelectSeq(quant, LAMBDA e : e.name # name)

DispatchPrecedence ==
    [][(lastOp'.op = "record_student_access" /\ IsWord(lastOp'.mode, SIMPLE)) =>
          /\ \A a \in ActivityIDs, s \in StudentIDs :
                ProgressOf(data', a, s) = ProgressOf(data, a, s)
          /\ ~lastOp'.raised =>
                /\ AccessedOf(data', lastOp'.activity, lastOp'.user) = <<TRUE>>
                /\ EntriesOtherThan(QuantOf(data', lastOp'.activity, lastOp'.user), ACCESSED)
                     = EntriesOtherThan(QuantOf(data, lastOp'.activity, lastOp'.user), ACCESSED)
      ]_vars

\* mode " SIMPLE " with progress "30" in the input: no progress entry written
DispatchPrecedenceWitness ==
    /\ Completed
    /\ IsWord(lastOp.mode, SIMPLE)
    /\ lastOp.progresso = In30
    /\ QuantOf(data, lastOp.activity, lastOp.user) = <<[name |-> ACCESSED, value |-> TRUE]>>

\* C7 (dispatch rule): _select_strategy picks the behaviour named by the mode
\* when the mode, trimmed and compared case-insensitively, is "simple" or
\* "progress"; otherwise progress behaviour when the input holds a non-empty
\* progress; otherwise plain access.  A recorded event with mode "" or "foo"
\* and progress "30" stores progress 30.
DispatchRule ==
    /\ IsRecord => lastOp.strategy = RuleBehaviour(lastOp.mode, lastOp.progresso)
    /\ (Completed /\ lastOp.mode \in {<< >>, <<"f", "o", "o">>} /\ lastOp.progresso = In30)
          => ProgressOf(data, lastOp.activity, lastOp.user) = <<30>>

\* mode "foo" with progress "30": progress behaviour inferred, 30 stored
DispatchRuleWitness ==
    /\ Completed
    /\ lastOp.mode = <<"f", "o", "o">>
    /\ lastOp.progresso = In30
    /\ lastOp.strategy = PROGRESS
    /\ ProgressOf(data, lastOp.activity, lastOp.user) = <<30>>

\* C8 (progress fallback): under progress behaviour an event whose progress
\* input is missing, empty or not an integer raises no error, sets the
\* accessed-flag to TRUE and neither adds nor changes a progress entry.
ProgressFallback ==
    [][(/\ lastOp'.op = "record_student_access"
        /\ RuleBehaviour(lastOp'.mode, lastOp'.progresso) = PROGRESS
        /\ lastOp'.progresso \notin IntegerInputs) =>
          /\ ~lastOp'.raised
          /\ AccessedOf(data', lastOp'.activity, lastOp'.user) = <<TRUE>>
          /\ \A a \in ActivityIDs, s \in StudentIDs :
                ProgressOf(data', a, s) = ProgressOf(data, a, s)
      ]_vars

\* C9 (idempotent registration): register_activity and prepare_deploy on a
\* registered activity leave the whole store unchanged, student records
\* included; on a new non-empty ID they add an activity for which
\* get_analytics returns [], and a second registration gives the same state.
IsRegistration(op) == op.op \in {"register_activity", "prepare_deploy"}

IdempotentRegistration ==
    [][IsRegistration(lastOp') =>
          /\ lastOp'.activity \in DOMAIN data => data' = data
          /\ (lastOp'.activity \notin DOMAIN data /\ lastOp'.activity # "") =>
                /\ DOMAIN data' = DOMAIN data \cup {lastOp'.activity}
                /\ \A a \in DOMAIN data : data'[a] = data[a]
                /\ GetActivityAnalytics(data', lastOp'.activity) = << >>
                /\ RegisterActivity(data', lastOp'.activity) = data'
      ]_vars

\* a registration of an activity that already holds a student record
IdempotentRegistrationWitness ==
    /\ IsRegistration(lastOp)
    /\ lastOp.activity \in DOMAIN data
    /\ Len(data[lastOp.activity]) >= 1

\* C10 (record existence): a record for (activity, student) is in the store
\* if and only if record_student_access has completed an event for that pair;
\* register_activity, prepare_deploy and get_analytics create none.
RecordExistence ==
    /\ \A a \in ActivityIDs, s \in StudentIDs :
          HasRecord(data, a, s) <=> <<a, s>> \in recorded
    /\ \A a \in DOMAIN data : \A i \in 1..Len(data[a]) :
          <<a, data[a][i].inveniraStdID>> \in recorded

\* a registered activity with a recorded student and a student without event,
\* seen after a registration or a fetch
RecordExistenceWitness ==
    /\ IsRegistration(lastOp) \/ lastOp.op = "get_analytics"
    /\ lastOp.activity \in DOMAIN data
    /\ \E s, t \in StudentIDs :
          /\ <<lastOp.activity, s>> \in recorded
          /\ <<lastOp.activity, t>> \notin recorded
          /\ ~HasRecord(data, lastOp.activity, t)
\* C11 (get_analytics is read-only): get_analytics leaves the set of
\* activities and every student record as they are; for an unknown activity ID
\* it returns an empty sequence and does not register the activity.
ReadOnlyAnalytics ==
    [][lastOp'.op = "get_analytics" =>
          /\ data' = data
          /\ recorded' = recorded
          /\ lastOp'.result = (IF lastOp'.activity \in DOMAIN data
                               THEN data[lastOp'.activity] ELSE << >>)
          /\ lastOp'.activity \notin DOMAIN data =>
                lastOp'.activity \notin DOMAIN data'
      ]_vars

\* get_analytics of a non-empty ID that was never registered
ReadOnlyAnalyticsWitness ==
    /\ lastOp.op = "get_analytics"
    /\ lastOp.activity # ""
    /\ lastOp.activity \notin DOMAIN data
    /\ lastOp.result = << >>

\* C12 (confirmation message): the mode printed in the message returned by
\* record_student_access is the behaviour the dispatch rule selected and that
\* the call applied to the store, not the raw mode: "simple" comes with an
\* unchanged progress entry, "progress" with the progress behaviour (the
\* clamped value stored for an integer input, its fallback otherwise).
MessageNamesBehaviour ==
    [][(lastOp'.op = "record_student_access" /\ ~lastOp'.raised) =>
          LET said == lastOp'.result[3]
              a == lastOp'.activity
              s == lastOp'.user
          IN  /\ said = RuleBehaviour(lastOp'.mode, lastOp'.progresso)
              /\ said = lastOp'.strategy
              /\ said = SIMPLE => ProgressOf(data', a, s) = ProgressOf(data, a, s)
              /\ (said = PROGRESS /\ lastOp'.progresso \in IntegerInputs) =>
                    /\ Len(ProgressOf(data', a, s)) = 1
                    /\ ProgressOf(data', a, s)[1] \in 0..100
              /\ (said = PROGRESS /\ lastOp'.progresso \notin IntegerInputs) =>
                    ProgressOf(data', a, s) = ProgressOf(data, a, s)
      ]_vars

\* raw mode "foo" with progress "30": the message says "progress"
MessageNamesBehaviourWitness ==
    /\ Completed
    /\ lastOp.mode = <<"f", "o", "o">>
    /\ lastOp.progresso = In30
    /\ lastOp.result = <<lastOp.user, lastOp.activity, PROGRESS>>
    /\ ProgressOf(data, lastOp.activity, lastOp.user) = <<30>>
\* C15 (upsert ordering): a write of a named metric removes the prior entry
\* of that name and appends the new one: the written metric ends up last and
\* the other entries keep their order.  An event writes the accessed-flag
\* first and the progress second, so a record holding both reads
\* [accessed-flag, progress] right after an event that stored progress and
\* [progress, accessed-flag] right after one that did not.
NamesOf(quant) == [i \in 1..Len(quant) |-> quant[i].name]

UpsertOrdering ==
    [][(lastOp'.op = "record_student_access" /\ ~lastOp'.raised) =>
          LET a == lastOp'.activity
              s == lastOp'.user
              before == QuantOf(data, a, s)
              after == QuantOf(data', a, s)
              others == EntriesOtherThan(EntriesOtherThan(before, ACCESSED), PROGRESSO)
          IN  IF SuppliesProgress(lastOp', a, s)
              THEN /\ SubSeq(after, 1, Len(after) - 2) = others
                   /\ NamesOf(SubSeq(after, Len(after) - 1, Len(after)))
                        = <<ACCESSED, PROGRESSO>>
              ELSE /\ SubSeq(after, 1, Len(after) - 1) = EntriesOtherThan(before, ACCESSED)
                   /\ NamesOf(SubSeq(after, Len(after), Len(after))) = <<ACCESSED>>
                   /\ ProgressOf(data, a, s) # << >> =>
                        NamesOf(after) = <<PROGRESSO, ACCESSED>>
      ]_vars

\* a plain event on a record that held [accessed-flag, progress]
UpsertOrderingWitness ==
    /\ Completed
    /\ ~SuppliesProgress(lastOp, lastOp.activity, lastOp.user)
    /\ NamesOf(QuantOf(data, lastOp.activity, lastOp.user)) = <<PROGRESSO, ACCESSED>>
\* C16 (one record per student, in order of first event): get_analytics
\* returns exactly one record for each student with an event in the activity;
\* a student's first event puts the record at the end, a later event updates
\* it in place, and no other call moves or removes a record.
StudentsOf(records) == [i \in 1..Len(records) |-> records[i].inveniraStdID]

FirstEventOrder ==
    /\ [](\A a \in TopoActivities :
            LET ids == StudentsOf(GetActivityAnalytics(data, a))
            IN  /\ \A i, j \in 1..Len(ids) : ids[i] = ids[j] => i = j
                /\ {ids[i] : i \in 1..Len(ids)} = {s \in StudentIDs : <<a, s>> \in recorded})
    /\ [][\A a \in TopoActivities :
            LET before == StudentsOf(GetActivityAnalytics(data, a))
                after == StudentsOf(GetActivityAnalytics(data', a))
            IN  IF /\ lastOp'.op = "record_student_access" /\ ~lastOp'.raised
                   /\ lastOp'.activity = a /\ <<a, lastOp'.user>> \notin recorded
                THEN after = Append(before, lastOp'.user)
                ELSE after = before
        ]_vars

\* two students with records, the first of them just had a later event that
\* changed its record: it is still first
FirstEventOrderWitness ==
    /\ Completed
    /\ steps = 3
    /\ Len(GetActivityAnalytics(data, lastOp.activity)) = 2
    /\ GetActivityAnalytics(data, lastOp.activity)[1].inveniraStdID = lastOp.user
    /\ Len(GetActivityAnalytics(data, lastOp.activity)[1].quantAnalytics) = 2

\* C17 (namespace independence): an event for (A, S) changes only the record
\* of S in A; the records of the other students of A and every record of
\* every other activity, a record of the same student ID S included, stay as
\* they are.
NamespaceIndependence ==
    [][lastOp'.op = "record_student_access" =>
          /\ \A b \in DOMAIN data : b # lastOp'.activity => data'[b] = data[b]
          /\ \A b \in TopoActivities, s \in StudentIDs :
                <<b, s>> # <<lastOp'.activity, lastOp'.user>> =>
                   /\ HasRecord(data', b, s) <=> HasRecord(data, b, s)
                   /\ QuantOf(data', b, s) = QuantOf(data, b, s)
      ]_vars

\* the student of the event has a different record in the other activity
NamespaceIndependenceWitness ==
    /\ Completed
    /\ \E b \in TopoActivities :
          /\ b # lastOp.activity
          /\ HasRecord(data, b, lastOp.user)
          /\ QuantOf(data, b, lastOp.user) # QuantOf(data, lastOp.activity, lastOp.user)
\* C13 (records are never pruned): once a record for (activity, student) is
\* in the store it is there in every later state, for every interleaving of
\* registrations and events of concurrent workers, two workers that both find
\* the activity unregistered included.
RecordsNeverPruned ==
    [][\A a \in ConcActivities, s \in ConcStudents :
          HasRecord(data, a, s) => HasRecord(data', a, s)]_vars

\* C14 (the read-modify-replace of register_student_event is not atomic):
\* requests that do not overlap leave the store of their serial execution;
\* two overlapping events of one pair can leave a store that neither serial
\* order gives, e.g. without the progress one of them wrote.
Quiescent == \A t \in Threads : threads[t].pc = "idle"

\* the store after the requests of a log, each run to its end before the next
RECURSIVE SerialStore(_, _)
SerialStore(log, d) ==
    IF log = << >> THEN d
    ELSE SerialStore(Tail(log),
            IF Head(log).op = "event"
            THEN RegisterStudentEvent(d, Head(log).activity, Head(log).user,
                                      Head(log).event).data
            ELSE IF Head(log).op = "register"
            THEN RegisterActivity(d, Head(log).activity)
            ELSE d)

SerialUnlessInterleaved ==
    (Quiescent /\ ~hist.overlap) => data = SerialStore(hist.log, << >>)

\* two overlapping events of one pair, one with progress: the final record
\* has no progress entry, unlike the result of either serial order
LostUpdateWitness ==
    /\ Quiescent
    /\ Len(hist.log) = 2
    /\ hist.overlap
    /\ hist.log[1].op = "event" /\ hist.log[2].op = "event"
    /\ hist.log[1].activity = hist.log[2].activity
    /\ hist.log[1].user = hist.log[2].user
    /\ "progresso" \in DOMAIN hist.log[1].event \cup DOMAIN hist.log[2].event
    /\ data # SerialStore(hist.log, << >>)
    /\ data # SerialStore(<<hist.log[2], hist.log[1]>>, << >>)
    /\ ProgressOf(SerialStore(hist.log, << >>), hist.log[1].activity, hist.log[1].user) # << >>
    /\ ProgressOf(SerialStore(<<hist.log[2], hist.log[1]>>, << >>),
                  hist.log[1].activity, hist.log[1].user) # << >>
    /\ HasRecord(data, hist.log[1].activity, hist.log[1].user)
    /\ ProgressOf(data, hist.log[1].activity, hist.log[1].user) = << >>

\* C18 (single shared store): every call of get_instance, from any thread at
\* any time, returns the instance FACADE holds; a second instance is never
\* constructed, so every holder reads and writes the same data.
SingleInstance ==
    /\ singleton.count <= 1
    /\ singleton.facade \in {0, singleton.instance}
    /\ \A t \in Threads : threads[t].got \in {0, singleton.instance}
    /\ \A t \in Workers : threads[t].got # 0 => threads[t].got = singleton.facade

\* a worker obtained the instance by get_instance while the store held a
\* record written through FACADE
SingleInstanceWitness ==
    /\ \E t \in Workers : threads[t].got = singleton.facade /\ threads[t].got = 1
    /\ \E a \in ConcActivities, s \in ConcStudents : HasRecord(data, a, s)

\* C19 (uniqueness under concurrency): for every interleaving of the
\* statements of concurrent events, every quantAnalytics list of a record
\* object, stored or held by a thread, has at most one accessed-flag entry and
\* at most one progress entry.
AtMostOnce(quant) ==
    /\ Len(ValuesOf(quant, ACCESSED)) <= 1
    /\ Len(ValuesOf(quant, PROGRESSO)) <= 1

====
